---- MODULE Spec2Model ----
(***************************************************************************)
(* Task service (task-service/app/main.py): identity extraction from the   *)
(* X-User-Id header, the five /tasks handlers, the /health probe and the   *)
(* startup retry loop, over a tasks table kept by the persistence layer.   *)
(*                                                                         *)
(* The persistence layer (crud.py, models.py, schemas.py, database.py) is  *)
(* imported by main.py; its operators below, named crud_..., follow the    *)
(* service description: rows keyed by a generated id, scoped by owner_id.  *)
(***************************************************************************)
EXTENDS Integers, Sequences, FiniteSets, TLC

VARIABLES phase, attempt, failed, tasks, nextId, pending, resp

vars == <<phase, attempt, failed, tasks, nextId, pending, resp>>

(***************************************************************************)
(* Bounds of the model.                                                    *)
(***************************************************************************)
MaxTasks == 2      \* ids the sequence hands out before the model stops creating
MaxHdrLen == 2     \* longest X-User-Id value tried
MaxSkip == 2       \* largest skip / limit tried on the list route
NumProcs == 2      \* requests that may be in flight between check and write

(***************************************************************************)
(* Program constants.                                                      *)
(***************************************************************************)
retries == 10

HTTP_400_BAD_REQUEST == 400
HTTP_401_UNAUTHORIZED == 401
HTTP_403_FORBIDDEN == 403
HTTP_404_NOT_FOUND == 404
HTTP_500_INTERNAL_SERVER_ERROR == 500

(***************************************************************************)
(* Header values: absent (None) or a string, a sequence of characters.     *)
(***************************************************************************)
HdrAlphabet == {"1", "x"}

Strings(n) == UNION {[1..k -> HdrAlphabet] : k \in 0..n}

NoHeader == [present |-> FALSE, value |-> <<>>]

Headers == {NoHeader} \cup {[present |-> TRUE, value |-> s] : s \in Strings(MaxHdrLen)}

\* Python int(str) on the characters the model sends: an optional sign, then
\* one or more decimal digits; anything else raises ValueError.
IsDigit(c) == c \in {"0", "1", "2", "3", "4", "5", "6", "7", "8", "9"}

DigitVal(c) ==
    CASE c = "0" -> 0 [] c = "1" -> 1 [] c = "2" -> 2 [] c = "3" -> 3
      [] c = "4" -> 4 [] c = "5" -> 5 [] c = "6" -> 6 [] c = "7" -> 7
      [] c = "8" -> 8 [] c = "9" -> 9

AllDigits(s) == Len(s) > 0 /\ \A i \in 1..Len(s) : IsDigit(s[i])

RECURSIVE DecValue(_)
DecValue(s) ==
    IF Len(s) = 0 THEN 0
    ELSE 10 * DecValue(SubSeq(s, 1, Len(s) - 1)) + DigitVal(s[Len(s)])

HasSign(s) == Len(s) > 0 /\ s[1] \in {"-", "+"}

int_raises(s) == ~ AllDigits(IF HasSign(s) THEN Tail(s) ELSE s)

int_value(s) ==
    IF HasSign(s)
    THEN (IF s[1] = "-" THEN 0 - DecValue(Tail(s)) ELSE DecValue(Tail(s)))
    ELSE DecValue(s)

(***************************************************************************)
(* Exceptions and handler outcomes.  An outcome is what the try body of a  *)
(* handler did: returned, or raised an HTTPException or another Exception. *)
(***************************************************************************)
HTTPException(status_code, detail) ==
    [raised |-> "HTTPException", status |-> status_code, detail |-> detail]

OtherException == [raised |-> "Exception", status |-> 0, detail |-> ""]

\* A handler that returns is answered with the framework's default status, 200.
Returned == [raised |-> "none", status |-> 200, detail |-> ""]

\* As get_user_id_from_header, testing `x_user_id is None` instead of
\* `not x_user_id`: an empty value goes on to int() and is answered 400.
get_user_id_from_header_IsNone(x_user_id) ==
    IF ~ x_user_id.present
    THEN [ok |-> FALSE, user_id |-> 0,
          exc |-> HTTPException(HTTP_401_UNAUTHORIZED, "User ID not provided")]
    ELSE IF int_raises(x_user_id.value)
    THEN [ok |-> FALSE, user_id |-> 0,
          exc |-> HTTPException(HTTP_400_BAD_REQUEST, "Invalid user ID")]
    ELSE [ok |-> TRUE, user_id |-> int_value(x_user_id.value), exc |-> Returned]

\* get_user_id_from_header: `not x_user_id` is true of None and of "".
get_user_id_from_header(x_user_id) ==
    IF ~ x_user_id.present \/ x_user_id.value = <<>>
    THEN [ok |-> FALSE, user_id |-> 0,
          exc |-> HTTPException(HTTP_401_UNAUTHORIZED, "User ID not provided")]
    ELSE IF int_raises(x_user_id.value)
    THEN [ok |-> FALSE, user_id |-> 0,
          exc |-> HTTPException(HTTP_400_BAD_REQUEST, "Invalid user ID")]
    ELSE [ok |-> TRUE, user_id |-> int_value(x_user_id.value), exc |-> Returned]

(***************************************************************************)
(* The tasks table and the request payloads.                               *)
(***************************************************************************)
Titles == {"A", "B"}
Descriptions == {"d1"}
Statuses == {"open", "done"}

Unset == "UNSET"     \* a TaskUpdate field the request did not supply

\* TaskCreate: every mutable field given.
TaskCreate == [title : Titles, description : Descriptions, status : Statuses]

\* TaskUpdate: each mutable field given or left unset.
TaskUpdate == [title : Titles \cup {Unset}, description : Descriptions \cup {Unset},
               status : Statuses \cup {Unset}]

NoUpdate == [title |-> Unset, description |-> Unset, status |-> Unset]

Supplied(upd) ==
    {f \in {"title", "description", "status"} : upd[f] # Unset}

\* crud.get_task: the rows with that id (none or one, id being the primary key).
crud_get_task(db, task_id) == {t \in db : t.id = task_id}

TheTask(found) == CHOOSE t \in found : TRUE

\* crud.create_task: a row with the next id of the sequence, owned by user_id.
crud_create_task(id, task, user_id) ==
    [id |-> id, owner_id |-> user_id, title |-> task.title,
     description |-> task.description, status |-> task.status]

\* crud.update_task: the supplied fields written to the row with that id.
Patched(t, task_update) ==
    [t EXCEPT !.title = IF task_update.title = Unset THEN @ ELSE task_update.title,
              !.description = IF task_update.description = Unset THEN @
                              ELSE task_update.description,
              !.status = IF task_update.status = Unset THEN @ ELSE task_update.status]

crud_update_task(db, task_id, task_update) ==
    {IF t.id = task_id THEN Patched(t, task_update) ELSE t : t \in db}

\* crud.delete_task: the row with that id removed.
crud_delete_task(db, task_id) == {t \in db : t.id # task_id}

\* crud.get_user_tasks: the caller's rows in an order the store chooses (the
\* query's order is the persistence layer's), then OFFSET skip LIMIT limit.
Orderings(S) ==
    {s \in [1..Cardinality(S) -> S] : \A i, j \in 1..Cardinality(S) : s[i] = s[j] => i = j}

Min(a, b) == IF a < b THEN a ELSE b

Slice(s, skip, limit) == SubSeq(s, skip + 1, Min(Len(s), skip + limit))

crud_get_user_tasks(db, user_id, skip, limit) ==
    {Slice(s, skip, limit) : s \in Orderings({t \in db : t.owner_id = user_id})}

(***************************************************************************)
(* The handlers.  Each operator is the handler's try block followed by its *)
(* except clauses, as a function of the table and the request; f names the *)
(* persistence call of the request that raises unexpectedly (0: none).     *)
(* A result carries what the try block did (try), what the client is sent  *)
(* (final), the table afterwards (db) and the response body.               *)
(***************************************************************************)
InternalError == HTTPException(HTTP_500_INTERNAL_SERVER_ERROR, "Internal server error")

\* create_task, get_tasks: `except Exception` alone.
except_Exception(try) == IF try.raised = "none" THEN try ELSE InternalError

\* As except_HTTPException_raise, with the `except HTTPException: raise` clause
\* left out: the handler's own 404 and 403 fall into `except Exception`.
except_HTTPException_raise_Missing(try) == except_Exception(try)

\* get_task, update_task, delete_task: `except HTTPException: raise`, then
\* `except Exception`.
except_HTTPException_raise(try) ==
    IF try.raised = "HTTPException" THEN try ELSE except_Exception(try)

Result(try, final, db, body, message, found, calls) ==
    [try |-> try, final |-> final, db |-> db, body |-> body, message |-> message,
     found |-> found, calls |-> calls]

create_task(db, id, task, user_id, f) ==
    LET db_task == crud_create_task(id, task, user_id)
        try == IF f = 1 THEN OtherException ELSE Returned
    IN  Result(try, except_Exception(try),
               IF f = 1 THEN db ELSE db \cup {db_task},
               IF f = 1 THEN <<>> ELSE <<db_task>>, "", FALSE, 1)

\* As get_tasks, listing through a query that is not scoped to the caller.
get_tasks_Unscoped(db, user_id, skip, limit, f) ==
    LET try == IF f = 1 THEN OtherException ELSE Returned
    IN  {Result(try, except_Exception(try), db, IF f = 1 THEN <<>> ELSE rows,
                "", FALSE, 1) : rows \in {Slice(o, skip, limit) : o \in Orderings(db)}}

\* One result per order the store may return the rows in.
get_tasks(db, user_id, skip, limit, f) ==
    LET try == IF f = 1 THEN OtherException ELSE Returned
    IN  {Result(try, except_Exception(try), db, IF f = 1 THEN <<>> ELSE rows,
                "", FALSE, 1) : rows \in crud_get_user_tasks(db, user_id, skip, limit)}

\* As get_task, with the ownership comparison inverted (== for !=).
get_task_InvertedOwner(db, task_id, user_id, f) ==
    LET task == crud_get_task(db, task_id)
        try == IF f = 1 THEN OtherException
               ELSE IF task = {}
               THEN HTTPException(HTTP_404_NOT_FOUND, "Task not found")
               ELSE IF TheTask(task).owner_id = user_id
               THEN HTTPException(HTTP_403_FORBIDDEN, "Not authorized to access this task")
               ELSE Returned
    IN  Result(try, except_HTTPException_raise(try), db,
               IF try.raised = "none" THEN <<TheTask(task)>> ELSE <<>>, "",
               f # 1 /\ task # {}, 1)

get_task(db, task_id, user_id, f) ==
    LET task == crud_get_task(db, task_id)
        try == IF f = 1 THEN OtherException
               ELSE IF task = {}
               THEN HTTPException(HTTP_404_NOT_FOUND, "Task not found")
               ELSE IF TheTask(task).owner_id # user_id
               THEN HTTPException(HTTP_403_FORBIDDEN, "Not authorized to access this task")
               ELSE Returned
    IN  Result(try, except_HTTPException_raise(try), db,
               IF try.raised = "none" THEN <<TheTask(task)>> ELSE <<>>, "",
               f # 1 /\ task # {}, 1)

\* As update_task_check, with the ownership test before the existence test:
\* task.owner_id on None raises AttributeError.
update_task_check_OwnerFirst(db, task_id, user_id, f) ==
    LET task == crud_get_task(db, task_id)
        try == IF f = 1 \/ task = {} THEN OtherException
               ELSE IF TheTask(task).owner_id # user_id
               THEN HTTPException(HTTP_403_FORBIDDEN, "Not authorized to update this task")
               ELSE Returned
    IN  Result(try, except_HTTPException_raise(try), db, <<>>, "",
               f # 1 /\ task # {}, 1)

\* As update_task_check, without the ownership test.
update_task_check_NoOwner(db, task_id, user_id, f) ==
    LET task == crud_get_task(db, task_id)
        try == IF f = 1 THEN OtherException
               ELSE IF task = {}
               THEN HTTPException(HTTP_404_NOT_FOUND, "Task not found")
               ELSE Returned
    IN  Result(try, except_HTTPException_raise(try), db, <<>>, "",
               f # 1 /\ task # {}, 1)

\* update_task up to the ownership check (the first await and the two ifs).
update_task_check(db, task_id, user_id, f) ==
    LET task == crud_get_task(db, task_id)
        try == IF f = 1 THEN OtherException
               ELSE IF task = {}
               THEN HTTPException(HTTP_404_NOT_FOUND, "Task not found")
               ELSE IF TheTask(task).owner_id # user_id
               THEN HTTPException(HTTP_403_FORBIDDEN, "Not authorized to update this task")
               ELSE Returned
    IN  Result(try, except_HTTPException_raise(try), db, <<>>, "",
               f # 1 /\ task # {}, 1)

\* As update_task_write, handing the persistence layer every field of the
\* payload, the unset ones included.
update_task_write_Overwrite(db, task_id, task_update, f) ==
    LET try == IF f = 2 THEN OtherException ELSE Returned
        written == {IF t.id = task_id
                    THEN [t EXCEPT !.title = task_update.title,
                                   !.description = task_update.description,
                                   !.status = task_update.status]
                    ELSE t : t \in db}
        updated == crud_get_task(written, task_id)
    IN  IF f = 2
        THEN Result(try, except_HTTPException_raise(try), db, <<>>, "", TRUE, 2)
        ELSE IF updated = {}
        THEN Result(try, [raised |-> "none", status |-> HTTP_500_INTERNAL_SERVER_ERROR,
                          detail |-> ""], db, <<>>, "", TRUE, 2)
        ELSE Result(try, except_HTTPException_raise(try), written,
                    <<TheTask(updated)>>, "", TRUE, 2)

\* update_task from crud.update_task on.  When the row is gone by now the
\* persistence call has nothing to return and the response model rejects the
\* empty result: the framework answers 500 outside the handler's try.
update_task_write(db, task_id, task_update, f) ==
    LET try == IF f = 2 THEN OtherException ELSE Returned
        updated == crud_get_task(crud_update_task(db, task_id, task_update), task_id)
    IN  IF f = 2
        THEN Result(try, except_HTTPException_raise(try), db, <<>>, "", TRUE, 2)
        ELSE IF updated = {}
        THEN Result(try, [raised |-> "none", status |-> HTTP_500_INTERNAL_SERVER_ERROR,
                          detail |-> ""], db, <<>>, "", TRUE, 2)
        ELSE Result(try, except_HTTPException_raise(try),
                    crud_update_task(db, task_id, task_update),
                    <<TheTask(updated)>>, "", TRUE, 2)

update_task(db, task_id, task_update, user_id, f) ==
    LET chk == update_task_check(db, task_id, user_id, f)
    IN  IF chk.try.raised # "none" THEN chk
        ELSE update_task_write(db, task_id, task_update, f)

\* As delete_task_check, without the ownership test.
delete_task_check_NoOwner(db, task_id, user_id, f) ==
    LET task == crud_get_task(db, task_id)
        try == IF f = 1 THEN OtherException
               ELSE IF task = {}
               THEN HTTPException(HTTP_404_NOT_FOUND, "Task not found")
               ELSE Returned
    IN  Result(try, except_HTTPException_raise(try), db, <<>>, "",
               f # 1 /\ task # {}, 1)

\* delete_task up to the ownership check.
delete_task_check(db, task_id, user_id, f) ==
    LET task == crud_get_task(db, task_id)
        try == IF f = 1 THEN OtherException
               ELSE IF task = {}
               THEN HTTPException(HTTP_404_NOT_FOUND, "Task not found")
               ELSE IF TheTask(task).owner_id # user_id
               THEN HTTPException(HTTP_403_FORBIDDEN, "Not authorized to delete this task")
               ELSE Returned
    IN  Result(try, except_HTTPException_raise(try), db, <<>>, "",
               f # 1 /\ task # {}, 1)

\* delete_task from crud.delete_task on.
delete_task_write(db, task_id, f) ==
    LET try == IF f = 2 THEN OtherException ELSE Returned
    IN  Result(try, except_HTTPException_raise(try),
               IF f = 2 THEN db ELSE crud_delete_task(db, task_id), <<>>,
               IF f = 2 THEN "" ELSE "Task deleted successfully", TRUE, 2)

delete_task(db, task_id, user_id, f) ==
    LET chk == delete_task_check(db, task_id, user_id, f)
    IN  IF chk.try.raised # "none" THEN chk
        ELSE delete_task_write(db, task_id, f)

\* As health_check, without the try/except around the probe.
health_check_Uncaught(probe_raises) ==
    IF probe_raises
    THEN [code |-> HTTP_500_INTERNAL_SERVER_ERROR, status |-> "", database |-> "",
          service |-> ""]
    ELSE [code |-> 200, status |-> "healthy", database |-> "up",
          service |-> "task-service"]

\* health_check: the probe's failure is caught and reported in the body; the
\* handler returns in both cases.
health_check(probe_raises) ==
    [code |-> 200, status |-> "healthy",
     database |-> IF probe_raises THEN "down" ELSE "up",
     service |-> "task-service"]

\* startup_event: one pass of the for loop on attempt number att (1..retries).
\* A successful attempt breaks out of the loop; both except clauses sleep and go
\* round again; the loop's else clause raises RuntimeError once the last attempt
\* has failed.
DbErrors == {"OperationalError", "CannotConnectNowError", "ConnectionRefusedError"}

AttemptOutcomes == {"ok"} \cup DbErrors \cup {"Exception"}

\* As startup_event, with the second except clause re-raising: an exception
\* outside the three connection classes ends startup at once.
startup_event_FatalOther(att, outcome) ==
    IF outcome = "ok" THEN "started"
    ELSE IF outcome \in DbErrors
    THEN (IF att = retries THEN "aborted" ELSE "starting")
    ELSE "aborted"

startup_event(att, outcome) ==
    IF outcome = "ok" THEN "started"
    ELSE IF outcome \in DbErrors
    THEN (IF att = retries THEN "aborted" ELSE "starting")
    ELSE (IF att = retries THEN "aborted" ELSE "starting")

(***************************************************************************)
(* State.  phase, attempt: the startup loop; failed counts its failed      *)
(* attempts.  tasks: the table; nextId: its id sequence.  pending: the     *)
(* requests suspended between their ownership check and their write.       *)
(* resp: the last response sent, with the request it answers.              *)
(***************************************************************************)
Procs == 1..NumProcs

Idle == [op |-> "idle", hdr |-> NoHeader, user_id |-> 0, task_id |-> 0,
         task_update |-> NoUpdate]

NoHealth == [code |-> 0, status |-> "", database |-> "", service |-> ""]

NoResp ==
    [op |-> "none", hdr |-> NoHeader, authed |-> FALSE, user_id |-> 0, task_id |-> 0,
     payload |-> NoUpdate, skip |-> 0, limit |-> 0, status |-> 0, detail |-> "",
     body |-> <<>>, message |-> "", health |-> NoHealth, try_raised |-> "none",
     try_status |-> 0, fault |-> 0, found |-> FALSE, calls |-> 0, changed |-> FALSE]

\* The response to a request the identity dependency refused: no handler ran.
Refused(op, hdr) ==
    LET exc == get_user_id_from_header(hdr).exc
    IN  [NoResp EXCEPT !.op = op, !.hdr = hdr, !.status = exc.status,
                       !.detail = exc.detail]

\* The response to a request whose handler ran with result r, under fault f.
Answer(op, hdr, user_id, task_id, payload, r, f, changed) ==
    [NoResp EXCEPT !.op = op, !.hdr = hdr, !.authed = TRUE, !.user_id = user_id,
                   !.task_id = task_id,
                   !.payload = IF r.final.status = 200 THEN payload ELSE NoUpdate,
                   !.status = r.final.status, !.detail = r.final.detail,
                   !.body = r.body, !.message = r.message,
                   !.try_raised = r.try.raised, !.try_status = r.try.status,
                   !.fault = IF f <= r.calls THEN f ELSE 0, !.found = r.found,
                   !.calls = r.calls, !.changed = changed]

TaskIds == 1..(MaxTasks + 1)

Init ==
    /\ phase = "starting"
    /\ attempt = 0
    /\ failed = 0
    /\ tasks = {}
    /\ nextId = 1
    /\ pending = [p \in Procs |-> Idle]
    /\ resp = NoResp

StartupAttempt ==
    /\ phase = "starting"
    /\ attempt < retries
    /\ \E outcome \in AttemptOutcomes :
        /\ attempt' = attempt + 1
        /\ failed' = IF outcome = "ok" THEN failed ELSE failed + 1
        /\ phase' = startup_event(attempt + 1, outcome)
    /\ UNCHANGED <<tasks, nextId, pending, resp>>

\* startup_event has returned: its locals are gone and the application starts
\* to accept requests.
StartupComplete ==
    /\ phase = "started"
    /\ phase' = "serving"
    /\ attempt' = 0
    /\ failed' = 0
    /\ UNCHANGED <<tasks, nextId, pending, resp>>

(***************************************************************************)
(* The routes.  H, P, U and F are the header values, payloads and faults   *)
(* a specification sends.  Each action is a whole request: the identity    *)
(* dependency, then the handler.                                           *)
(***************************************************************************)
\* POST /tasks
CreateTask(H, P, F) ==
    /\ phase = "serving"
    /\ \E hdr \in H :
        LET ident == get_user_id_from_header(hdr)
        IN  IF ~ ident.ok
            THEN resp' = Refused("create", hdr) /\ UNCHANGED <<tasks, nextId>>
            ELSE \E task \in P, f \in F :
                    /\ nextId <= MaxTasks
                    /\ LET r == create_task(tasks, nextId, task, ident.user_id, f)
                       IN  /\ tasks' = r.db
                           /\ nextId' \in (IF f = 1 THEN {nextId, nextId + 1}
                                           ELSE {nextId + 1})
                           /\ resp' = Answer("create", hdr, ident.user_id, 0, task, r,
                                             f, r.db # tasks)
    /\ UNCHANGED <<phase, attempt, failed, pending>>

\* GET /tasks
GetTasks(H, F) ==
    /\ phase = "serving"
    /\ \E hdr \in H :
        LET ident == get_user_id_from_header(hdr)
        IN  IF ~ ident.ok
            THEN resp' = Refused("list", hdr)
            ELSE \E skip \in 0..MaxSkip, limit \in 0..MaxSkip, f \in F :
                    \E r \in get_tasks(tasks, ident.user_id, skip, limit, f) :
                        resp' = [Answer("list", hdr, ident.user_id, 0, NoUpdate, r, f,
                                        FALSE)
                                 EXCEPT !.skip = skip, !.limit = limit]
    /\ UNCHANGED <<phase, attempt, failed, tasks, nextId, pending>>

\* GET /tasks/{task_id}
GetTask(H, F) ==
    /\ phase = "serving"
    /\ \E hdr \in H :
        LET ident == get_user_id_from_header(hdr)
        IN  IF ~ ident.ok
            THEN resp' = Refused("get", hdr)
            ELSE \E task_id \in TaskIds, f \in F :
                    LET r == get_task(tasks, task_id, ident.user_id, f)
                    IN  resp' = Answer("get", hdr, ident.user_id, task_id, NoUpdate, r,
                                       f, r.db # tasks)
    /\ UNCHANGED <<phase, attempt, failed, tasks, nextId, pending>>

\* PUT /tasks/{task_id}, check and write in one step.  The payload is read only
\* once the ownership check has passed.
UpdateTask(H, U, F) ==
    /\ phase = "serving"
    /\ \E hdr \in H :
        LET ident == get_user_id_from_header(hdr)
        IN  IF ~ ident.ok
            THEN resp' = Refused("update", hdr) /\ UNCHANGED tasks
            ELSE \E task_id \in TaskIds, f \in F :
                   \E task_update \in
                        (IF update_task_check(tasks, task_id, ident.user_id, f).try.raised
                              = "none" THEN U ELSE {NoUpdate}) :
                    LET r == update_task(tasks, task_id, task_update, ident.user_id, f)
                    IN  /\ tasks' = r.db
                        /\ resp' = Answer("update", hdr, ident.user_id, task_id,
                                          task_update, r, f, r.db # tasks)
    /\ UNCHANGED <<phase, attempt, failed, nextId, pending>>

\* DELETE /tasks/{task_id}, check and write in one step.
DeleteTask(H, F) ==
    /\ phase = "serving"
    /\ \E hdr \in H :
        LET ident == get_user_id_from_header(hdr)
        IN  IF ~ ident.ok
            THEN resp' = Refused("delete", hdr) /\ UNCHANGED tasks
            ELSE \E task_id \in TaskIds, f \in F :
                    LET r == delete_task(tasks, task_id, ident.user_id, f)
                    IN  /\ tasks' = r.db
                        /\ resp' = Answer("delete", hdr, ident.user_id, task_id,
                                          NoUpdate, r, f, r.db # tasks)
    /\ UNCHANGED <<phase, attempt, failed, nextId, pending>>

\* GET /health
HealthCheck ==
    /\ phase = "serving"
    /\ \E probe_raises \in BOOLEAN :
        LET h == health_check(probe_raises)
        IN  resp' = [NoResp EXCEPT !.op = "health", !.status = h.code, !.health = h,
                                   !.try_raised = IF probe_raises THEN "Exception"
                                                  ELSE "none",
                                   !.fault = IF probe_raises THEN 1 ELSE 0,
                                   !.calls = 1]
    /\ UNCHANGED <<phase, attempt, failed, tasks, nextId, pending>>

(***************************************************************************)
(* PUT and DELETE as the event loop runs them: the handler is suspended at *)
(* each await, so other requests run between its ownership check and its  *)
(* write.  No lock is held in between.                                     *)
(***************************************************************************)
UpdateCheck(p, H, U) ==
    /\ phase = "serving"
    /\ pending[p] = Idle
    /\ \E hdr \in H :
        LET ident == get_user_id_from_header(hdr)
        IN  IF ~ ident.ok
            THEN resp' = Refused("update", hdr) /\ UNCHANGED pending
            ELSE \E task_id \in TaskIds :
                    LET r == update_task_check(tasks, task_id, ident.user_id, 0)
                    IN  IF r.try.raised # "none"
                        THEN /\ resp' = Answer("update", hdr, ident.user_id, task_id,
                                               NoUpdate, r, 0, FALSE)
                             /\ UNCHANGED pending
                        ELSE \E task_update \in U :
                                /\ pending' = [pending EXCEPT ![p] =
                                        [op |-> "update", hdr |-> hdr,
                                         user_id |-> ident.user_id, task_id |-> task_id,
                                         task_update |-> task_update]]
                                /\ UNCHANGED resp
    /\ UNCHANGED <<phase, attempt, failed, tasks, nextId>>

UpdateWrite(p) ==
    /\ phase = "serving"
    /\ pending[p].op = "update"
    /\ LET q == pending[p]
           r == update_task_write(tasks, q.task_id, q.task_update, 0)
       IN  /\ tasks' = r.db
           /\ resp' = Answer("update", q.hdr, q.user_id, q.task_id, q.task_update, r,
                             0, r.db # tasks)
    /\ pending' = [pending EXCEPT ![p] = Idle]
    /\ UNCHANGED <<phase, attempt, failed, nextId>>

DeleteCheck(p, H) ==
    /\ phase = "serving"
    /\ pending[p] = Idle
    /\ \E hdr \in H :
        LET ident == get_user_id_from_header(hdr)
        IN  IF ~ ident.ok
            THEN resp' = Refused("delete", hdr) /\ UNCHANGED pending
            ELSE \E task_id \in TaskIds :
                    LET r == delete_task_check(tasks, task_id, ident.user_id, 0)
                    IN  IF r.try.raised # "none"
                        THEN /\ resp' = Answer("delete", hdr, ident.user_id, task_id,
                                               NoUpdate, r, 0, FALSE)
                             /\ UNCHANGED pending
                        ELSE /\ pending' = [pending EXCEPT ![p] =
                                        [op |-> "delete", hdr |-> hdr,
                                         user_id |-> ident.user_id, task_id |-> task_id,
                                         task_update |-> NoUpdate]]
                             /\ UNCHANGED resp
    /\ UNCHANGED <<phase, attempt, failed, tasks, nextId>>

DeleteWrite(p) ==
    /\ phase = "serving"
    /\ pending[p].op = "delete"
    /\ LET q == pending[p]
           r == delete_task_write(tasks, q.task_id, 0)
       IN  /\ tasks' = r.db
           /\ resp' = Answer("delete", q.hdr, q.user_id, q.task_id, NoUpdate, r,
                             0, r.db # tasks)
    /\ pending' = [pending EXCEPT ![p] = Idle]
    /\ UNCHANGED <<phase, attempt, failed, nextId>>

(***************************************************************************)
(* Specifications.  Spec: requests one at a time, every header value,      *)
(* payload and persistence fault.  FairSpec: Spec with the startup loop    *)
(* kept running.  ConcSpec: PUT and DELETE suspended between check and     *)
(* write, on a few payloads.                                               *)
(***************************************************************************)
Faults1 == 0..1

Faults2 == 0..2

Next ==
    \/ StartupAttempt
    \/ StartupComplete
    \/ CreateTask(Headers, TaskCreate, Faults1)
    \/ GetTasks(Headers, Faults1)
    \/ GetTask(Headers, Faults1)
    \/ UpdateTask(Headers, TaskUpdate, Faults2)
    \/ DeleteTask(Headers, Faults2)
    \/ HealthCheck

Spec == Init /\ [][Next]_vars

FairSpec == Spec /\ WF_vars(StartupAttempt)

ConcHeaders == {h \in Headers : get_user_id_from_header(h).ok}

ConcCreates == {t \in TaskCreate : t.title = "A" /\ t.description = "d1" /\ t.status = "open"}

ConcUpdates == {u \in TaskUpdate : Supplied(u) = {"title"} /\ u.title = "B"}
                   \cup {u \in TaskUpdate : Supplied(u) = {"status"} /\ u.status = "done"}

ConcNext ==
    \/ StartupAttempt
    \/ StartupComplete
    \/ CreateTask(ConcHeaders, ConcCreates, {0})
    \/ \E p \in Procs : UpdateCheck(p, ConcHeaders, ConcUpdates)
    \/ \E p \in Procs : UpdateWrite(p)
    \/ \E p \in Procs : DeleteCheck(p, ConcHeaders)
    \/ \E p \in Procs : DeleteWrite(p)

ConcSpec == Init /\ [][ConcNext]_vars

(***************************************************************************)
(* Properties.                                                             *)
(***************************************************************************)
TaskOps == {"create", "list", "get", "update", "delete"}

ItemOps == {"get", "update", "delete"}

\* C3 as stated: on every /tasks route an absent X-User-Id header is answered
\* 401 and a value that does not parse as an integer is answered 400.
C3_AsStated ==
    resp.op \in TaskOps =>
        /\ ~ resp.hdr.present => resp.status = HTTP_401_UNAUTHORIZED
        /\ resp.hdr.present /\ int_raises(resp.hdr.value)
              => resp.status = HTTP_400_BAD_REQUEST

\* C3 amended: on every /tasks route an absent header or an empty value is
\* answered 401, and a non-empty value that does not parse as an integer is
\* answered 400; either way no handler runs: no persistence call is made, the
\* table is unchanged and the answer is none of 403, 404, 500.
C3_Identity ==
    resp.op \in TaskOps =>
        /\ (~ resp.hdr.present \/ resp.hdr.value = <<>>)
              => resp.status = HTTP_401_UNAUTHORIZED
        /\ (resp.hdr.present /\ resp.hdr.value # <<>> /\ int_raises(resp.hdr.value))
              => resp.status = HTTP_400_BAD_REQUEST
        /\ (~ resp.hdr.present \/ int_raises(resp.hdr.value))
              => /\ ~ resp.authed
                 /\ resp.calls = 0
                 /\ ~ resp.changed
                 /\ resp.body = <<>>

C3_Witness ==
    /\ resp.op = "update"
    /\ resp.hdr.present
    /\ resp.hdr.value = <<"1", "x">>
    /\ resp.status = HTTP_400_BAD_REQUEST
    /\ tasks # {}

\* C4: the startup loop makes at most `retries` attempts and always ends: it
\* stops at the first successful attempt, goes on after a failed one whatever
\* was raised, and aborts exactly when all `retries` attempts have failed.
StartupInv ==
    /\ attempt \in 0..retries
    /\ phase = "starting" => failed = attempt /\ attempt < retries
    /\ phase = "started" => attempt >= 1 /\ failed = attempt - 1
    /\ phase = "aborted" => attempt = retries
    /\ phase = "aborted" <=> failed = retries

\* C4, with termination: StartupInv holds throughout and the loop ends, started
\* or aborted.
C4_Startup == [] StartupInv /\ <>(phase \in {"started", "aborted"})

C4_Witness == phase = "started" /\ attempt = retries /\ failed = retries - 1

\* C5: /health always answers 200 with status "healthy" and service
\* "task-service"; database is "up" exactly when the probe succeeded and "down"
\* exactly when it raised.
C5_Health ==
    resp.op = "health" =>
        /\ resp.status = 200
        /\ resp.health.status = "healthy"
        /\ resp.health.service = "task-service"
        /\ resp.health.database = "up" <=> resp.fault = 0
        /\ resp.health.database = "down" <=> resp.fault # 0

C5_Witness ==
    resp.op = "health" /\ resp.health.database = "down" /\ resp.status = 200

Fields == {"title", "description", "status"}

\* The step answered a request (every route's action records its response).
Answered == resp' # resp \/ tasks' # tasks

\* C1: a get, update or delete of an existing task by a caller other than its
\* owner is answered 403 (500 when the lookup itself raises); the response never
\* carries the task and the request leaves the table as it was.
C1_Forbidden ==
    [][(/\ Answered
        /\ resp'.op \in ItemOps
        /\ resp'.authed
        /\ \E t \in tasks : t.id = resp'.task_id /\ t.owner_id # resp'.user_id)
       => /\ resp'.fault = 0 => resp'.status = HTTP_403_FORBIDDEN
          /\ resp'.status \in {HTTP_403_FORBIDDEN, HTTP_500_INTERNAL_SERVER_ERROR}
          /\ resp'.body = <<>>
          /\ resp'.message = ""
          /\ tasks' = tasks]_vars

C1_Witness ==
    /\ resp.op = "delete"
    /\ resp.status = HTTP_403_FORBIDDEN
    /\ \E t \in tasks : t.id = resp.task_id /\ t.owner_id # resp.user_id

\* C2: a get, update or delete of an id with no row, by a caller with a valid
\* identity, is answered 404, never 403 (500 when the lookup itself raises), and
\* the request leaves the table as it was.
C2_NotFound ==
    [][(/\ Answered
        /\ resp'.op \in ItemOps
        /\ resp'.authed
        /\ \A t \in tasks : t.id # resp'.task_id)
       => /\ resp'.fault = 0 => resp'.status = HTTP_404_NOT_FOUND
          /\ resp'.status \in {HTTP_404_NOT_FOUND, HTTP_500_INTERNAL_SERVER_ERROR}
          /\ resp'.body = <<>>
          /\ resp'.message = ""
          /\ tasks' = tasks]_vars

C2_Witness ==
    /\ resp.op = "update"
    /\ resp.status = HTTP_404_NOT_FOUND
    /\ tasks # {}
    /\ \A t \in tasks : t.id # resp.task_id /\ t.owner_id # resp.user_id

\* C6: whatever creates, updates and deletes came before, a list answered to
\* caller C holds only rows whose owner_id is C, for every skip and limit.
C6_ListScoped ==
    resp.op = "list" =>
        \A i \in 1..Len(resp.body) :
            /\ resp.body[i].owner_id = resp.user_id
            /\ resp.body[i] \in tasks

C6_Witness ==
    /\ resp.op = "list"
    /\ resp.limit >= 1
    /\ Len(resp.body) >= 1
    /\ \E t \in tasks : t.owner_id # resp.user_id

\* C7: right after caller C created a task from payload P, fetching the returned
\* id as C succeeds and returns the task with P's mutable fields, owner_id C and
\* the generated id, which no other row of the table carries.
C7_RoundTrip ==
    (resp.op = "create" /\ resp.status = 200) =>
        /\ Len(resp.body) = 1
        /\ LET created == resp.body[1]
               fetched == get_task(tasks, created.id, resp.user_id, 0)
           IN  /\ fetched.final.status = 200
               /\ fetched.body = <<created>>
               /\ \A fld \in Fields : fetched.body[1][fld] = resp.payload[fld]
               /\ fetched.body[1].owner_id = resp.user_id
               /\ \A t \in tasks : t.id = created.id => t = created

C7_Witness ==
    /\ resp.op = "create"
    /\ resp.status = 200
    /\ \E t \in tasks : t.id # resp.body[1].id /\ t.owner_id # resp.user_id

\* C8: a successful update by the owner sets exactly the fields its payload
\* supplies: the other mutable fields, the id and the owner_id of the task keep
\* their values, and every other row of the table is unchanged.
C8_PartialUpdate ==
    [][(Answered /\ resp'.op = "update" /\ resp'.status = 200) =>
        LET before == crud_get_task(tasks, resp'.task_id)
            after == crud_get_task(tasks', resp'.task_id)
        IN  /\ before # {}
            /\ after # {}
            /\ TheTask(before).owner_id = resp'.user_id
            /\ TheTask(after).id = TheTask(before).id
            /\ TheTask(after).owner_id = TheTask(before).owner_id
            /\ \A fld \in Fields :
                  TheTask(after)[fld] = IF resp'.payload[fld] = Unset
                                        THEN TheTask(before)[fld]
                                        ELSE resp'.payload[fld]
            /\ resp'.body = <<TheTask(after)>>
            /\ tasks' \ after = tasks \ before]_vars

C8_Witness ==
    /\ resp.op = "update"
    /\ resp.status = 200
    /\ resp.changed
    /\ Supplied(resp.payload) = {"status"}
    /\ \E t \in tasks : t.id # resp.task_id

\* C9: in every /tasks handler an unexpected failure of a persistence call is
\* answered 500 with the detail "Internal server error", and the 404 and 403
\* raised by the lookup and ownership checks are sent with their own status.
C9_ErrorMapping ==
    (resp.op \in TaskOps /\ resp.authed) =>
        /\ resp.fault # 0
              => /\ resp.status = HTTP_500_INTERNAL_SERVER_ERROR
                 /\ resp.detail = "Internal server error"
                 /\ resp.body = <<>>
                 /\ ~ resp.changed
        /\ resp.try_raised = "HTTPException"
              => /\ resp.try_status \in {HTTP_403_FORBIDDEN, HTTP_404_NOT_FOUND}
                 /\ resp.status = resp.try_status
                 /\ resp.detail # "Internal server error"

C9_Witness ==
    /\ resp.op = "delete"
    /\ resp.fault = 2
    /\ resp.status = HTTP_500_INTERNAL_SERVER_ERROR

\* C10: with check and write as separate steps and requests interleaved freely,
\* a row is changed or removed only by a request of its owner, and no row ever
\* changes owner.
C10_OwnerOnlyWrites ==
    [][/\ \A t \in tasks :
            t \notin tasks' => /\ resp'.op \in {"update", "delete"}
                               /\ resp'.task_id = t.id
                               /\ resp'.user_id = t.owner_id
       /\ \A t \in tasks, u \in tasks' : t.id = u.id => t.owner_id = u.owner_id]_vars

\* A write that found its row removed since the check.
C10_Witness ==
    /\ resp.op = "update"
    /\ resp.status = HTTP_500_INTERNAL_SERVER_ERROR
    /\ resp.try_raised = "none"
    /\ \E p \in Procs : pending[p].op = "update"
    /\ \E t \in tasks : t.owner_id # resp.user_id

====
